---- MODULE Spec2Model ----
(***************************************************************************)
(* The image-push redeploy trigger of ECS-Fargate-AWS-CDK.                 *)
(*                                                                         *)
(* Two variants of the Lambda handler exist in the repository:             *)
(*   "v2"  src/lambda/index.js      (aws-sdk v2, ecs.updateService)         *)
(*   "v3"  src/unnamed/part_000     (@aws-sdk/client-ecs, ecsClient.send)   *)
(* Each is deployed by one variant of MainStack (src/lib/main-stack.ts),   *)
(* which sets the function's environment and the EventBridge rule.         *)
(*                                                                         *)
(* JavaScript strings that the handler builds are sequences of tokens, so  *)
(* that a template literal is a concatenation and "contains" is a check.   *)
(***************************************************************************)
EXTENDS Integers, Sequences, FiniteSets, TLC

\* Number of event occurrences (rule evaluations and direct invocations).
MaxInv == 2

Invocations == 1..MaxInv

\* process.env.X of a variable that is not set
Undefined == "undefined"

Variants == {"v2", "v3"}

VARIABLES
    variant,      \* the handler variant deployed
    env,          \* process.env of the function
    inv,          \* the event occurrences and their invocations
    requests,     \* the requests the Service Runtime has received, in order
    deployment,   \* the deployment each accepted request started
    fargateService \* the ECS service: its primary deployment, the image that
                  \* deployment launches, and the image of the running tasks

vars == <<variant, env, inv, requests, deployment, fargateService>>

(***************************************************************************)
(* MainStack: the names the stack gives its resources.                    *)
(***************************************************************************)
\* private readonly ecrTag = 'latest'
EcrTag == "latest"

RepositoryName == "my-repo"

\* serviceName of the Fargate service: 'app' where the stack passes it, the
\* name the deployment generates where it does not.
ServiceName(v) == IF v = "v3" THEN "all-in-appservice-generated" ELSE "app"

\* clusterName: createCluster(this.serviceName, vpc) / createCluster('main', vpc)
ClusterName(v) == IF v = "v3" THEN "app" ELSE "main"

\* taskDefinition.taskDefinitionArn: the task definition the service is
\* created with, and a later revision of it
TaskDefinitionArn == "arn:aws:ecs:task-definition/main"

NewTaskDefinitionArn == "arn:aws:ecs:task-definition/main:2"

\* environment: { CLUSTER_NAME, SERVICE_NAME [, TASK_DEFINITION] }
\* (the two names given to each other's variable)
LambdaEnvironmentSwapped(v) ==
    [CLUSTER_NAME    |-> ServiceName(v),
     SERVICE_NAME    |-> ClusterName(v),
     TASK_DEFINITION |-> IF v = "v2" THEN TaskDefinitionArn ELSE Undefined]

LambdaEnvironment(v) ==
    [CLUSTER_NAME    |-> ClusterName(v),
     SERVICE_NAME    |-> ServiceName(v),
     TASK_DEFINITION |-> IF v = "v2" THEN TaskDefinitionArn ELSE Undefined]

\* The constructor of MainStack: the repository, the cluster, the task
\* definition whose container image is the repository's tag ecrTag, the
\* Fargate service of that task definition in that cluster, the function with
\* its environment, and the rule on the repository.
MainStack(v) ==
    LET repo           == [repositoryName |-> RepositoryName]
        cluster        == [clusterName |-> ClusterName(v)]
        taskDefinition == [taskDefinitionArn |-> TaskDefinitionArn,
                           imageRepository   |-> repo.repositoryName,
                           imageTag          |-> EcrTag]
        service        == [serviceName    |-> ServiceName(v),
                           cluster        |-> cluster.clusterName,
                           taskDefinition |-> taskDefinition]
    IN  [repo           |-> repo,
         cluster        |-> cluster,
         fargateService |-> service,
         environment    |-> LambdaEnvironment(v),
         ruleRepository |-> repo.repositoryName]

\* The environments a function can run with: the one the stack sets, and the
\* ones in which a required name is missing (a function deployed or run
\* outside the stack).
Environments(v) ==
    { [LambdaEnvironment(v) EXCEPT !.CLUSTER_NAME = c, !.SERVICE_NAME = s] :
        c \in {ClusterName(v), Undefined}, s \in {ServiceName(v), Undefined} }
    \cup
    (IF v = "v2"
     THEN { [LambdaEnvironment(v) EXCEPT !.TASK_DEFINITION = t] :
              t \in {NewTaskDefinitionArn, Undefined} }
     ELSE {})

(***************************************************************************)
(* Events.  json is FALSE for a value JSON.stringify throws on (a cyclic   *)
(* object, a BigInt); every event EventBridge delivers is a JSON envelope. *)
(***************************************************************************)
EcrEvent(action, repo, tag) ==
    [source         |-> "aws.ecr",
     detailType     |-> "ECR Image Action",
     actionType     |-> action,
     repositoryName |-> repo,
     imageTag       |-> tag,
     json           |-> TRUE]

NoEvent ==
    [source |-> "none", detailType |-> "none", actionType |-> "none",
     repositoryName |-> "none", imageTag |-> "none", json |-> TRUE]

\* What the registry puts on the event bus.
RegistryEvents ==
    { EcrEvent("PUSH", RepositoryName, "latest"),
      EcrEvent("PUSH", RepositoryName, "v1"),
      EcrEvent("PUSH", "other-repo", "latest"),
      EcrEvent("DELETE", RepositoryName, "latest") }

\* Events on the bus that are not image actions of the registry: the
\* registry's scan result for the repository, and an event another
\* application publishes with the same detail.
ScanEvent ==
    [EcrEvent("PUSH", RepositoryName, "latest") EXCEPT !.detailType = "ECR Image Scan"]

CustomEvent ==
    [EcrEvent("PUSH", RepositoryName, "latest") EXCEPT !.source = "custom.app"]

\* What the rule sees on the event bus.
BusEvents == RegistryEvents \cup {ScanEvent, CustomEvent}

\* An event without the fields of an ECR image action.
MalformedEvent ==
    [source |-> Undefined, detailType |-> Undefined, actionType |-> Undefined,
     repositoryName |-> Undefined, imageTag |-> Undefined, json |-> TRUE]

\* A push-shaped value that cannot be serialised.
CyclicEvent == [EcrEvent("PUSH", RepositoryName, "latest") EXCEPT !.json = FALSE]

\* What a caller of exports.handler can pass.
DirectEvents ==
    { EcrEvent("PUSH", RepositoryName, "latest"),
      EcrEvent("DELETE", RepositoryName, "latest"),
      MalformedEvent,
      CyclicEvent }

\* eventPattern of the rule
\* (a pattern that also names the image tag)
RuleMatchesLatestOnly(e) ==
    /\ e.source = "aws.ecr"
    /\ e.detailType = "ECR Image Action"
    /\ e.actionType = "PUSH"
    /\ e.repositoryName = RepositoryName
    /\ e.imageTag = "latest"

RuleMatchesAnyRepository(e) ==
    /\ e.source = "aws.ecr"
    /\ e.detailType = "ECR Image Action"
    /\ e.actionType = "PUSH"

RuleMatchesNoAction(e) ==
    /\ e.source = "aws.ecr"
    /\ e.detailType = "ECR Image Action"
    /\ e.repositoryName = RepositoryName

RuleMatches(e) ==
    /\ e.source = "aws.ecr"
    /\ e.detailType = "ECR Image Action"
    /\ e.actionType = "PUSH"
    /\ e.repositoryName = RepositoryName

(***************************************************************************)
(* The Service Runtime's replies.                                          *)
(***************************************************************************)
Ack(id, status) == [deploymentId |-> id, status |-> status, json |-> TRUE]

NoAck == Ack("none", "none")

Acks == { Ack("d-1", "PRIMARY"), Ack("d-2", "ACTIVE") }

Err(name, message) == [name |-> name, message |-> message]

NoError == Err("none", << >>)

Errors ==
    { Err("AccessDeniedException", <<"User", " is not authorized">>),
      Err("ServiceNotFoundException", <<"ServiceNotFoundException">>),
      Err("ThrottlingException", <<"Rate", " exceeded">>),
      Err("TimeoutError", <<"connect", " ETIMEDOUT">>) }

\* JSON.stringify(value, null, 2)
CanStringify(value) == value.json

StringifyError == Err("TypeError", <<"Converting circular structure to JSON">>)

\* t occurs in s as a contiguous run of tokens
Contains(s, t) ==
    \E k \in 0..(Len(s) - Len(t)) : SubSeq(s, k + 1, k + Len(t)) = t

(***************************************************************************)
(* The handler.                                                            *)
(***************************************************************************)
\* { cluster, service, forceNewDeployment: true }
UpdateServiceInputNoForce(cluster, service) ==
    [cluster |-> cluster, service |-> service, forceNewDeployment |-> FALSE]

UpdateServiceInputWithTaskDefinition(cluster, service) ==
    [cluster |-> cluster, service |-> service, forceNewDeployment |-> TRUE,
     taskDefinition |-> env.TASK_DEFINITION]

UpdateServiceInput(cluster, service) ==
    [cluster |-> cluster, service |-> service, forceNewDeployment |-> TRUE]

\* `ECS service update failed: ${error.message}`
ErrorTemplateNoMessage(message) == <<"ECS service update", " failed: ">>

ErrorTemplate(message) == <<"ECS service update", " failed: ">> \o message

\* return response;
ReturnValueStatusOnly(response) == [response EXCEPT !.deploymentId = "none"]

ReturnValue(response) == response

\* const ecs = new AWS.ECS();                      (v2, when the module loads)
\* const ecsClient = new ECSClient({ region: ... })  (v3, in the handler)
\* The client invocation i calls the Service Runtime with: constructedBy is
\* 0 for the one made when the process loaded the module, and the invocation
\* that made it otherwise.
Client(v, i) ==
    IF v = "v3"
    THEN [name |-> "ecsClient", constructedBy |-> i]
    ELSE [name |-> "ecs", constructedBy |-> 0]

NoClient == [name |-> "none", constructedBy |-> 0]

IdleInvocation ==
    [pc       |-> "idle",
     origin   |-> "none",
     push     |-> 0,
     event    |-> NoEvent,
     cluster  |-> Undefined,
     service  |-> Undefined,
     taskDefinition |-> Undefined,
     client   |-> NoClient,
     calls    |-> 0,
     trace    |-> << >>,
     ok       |-> FALSE,
     response |-> NoAck,
     error    |-> NoError,
     outcome  |-> "none",
     result   |-> NoAck,
     thrown   |-> NoError]

\* await ecsClient.send(new UpdateServiceCommand(input))  (v3)
\* await ecs.updateService(input).promise()                 (v2)
\* r is the invocation's record with cluster and service read; the request
\* reaches the Service Runtime and the handler is suspended.
sendCommandDedup(v, r, i, reqs) ==
    LET req == [inv |-> i, input |-> UpdateServiceInput(r.cluster, r.service)]
    IN  IF \E k \in 1..Len(reqs) : reqs[k].input = req.input
        THEN [inv |-> [r EXCEPT !.pc = "done", !.outcome = "returned"],
              requests |-> reqs]
        ELSE [inv |-> [r EXCEPT !.pc = "awaiting", !.calls = r.calls + 1,
                                !.trace = r.trace \o <<"send">>],
              requests |-> Append(reqs, req)]

sendCommand(v, r, i, reqs) ==
    LET req == [inv |-> i, input |-> UpdateServiceInput(r.cluster, r.service)]
    IN  [inv |-> [r EXCEPT !.pc = "awaiting", !.calls = r.calls + 1,
                           !.trace = r.trace \o <<"send">>],
         requests |-> Append(reqs, req)]

\* const cluster = process.env.CLUSTER_NAME;
\* const service = process.env.SERVICE_NAME;
\* The handler has the environment and the event in scope.
readTargetFromEvent(environment, e) ==
    [cluster |-> environment.CLUSTER_NAME, service |-> e.repositoryName]

readTarget(environment, e) ==
    [cluster |-> environment.CLUSTER_NAME, service |-> environment.SERVICE_NAME]

\* The part of the handler that runs before the await: reads the
\* environment, logs, builds the input and calls the client.
\* Gives the invocation's record and the runtime's request log.
handlerStart(v, environment, e, origin, i, reqs) ==
    LET r0 == [IdleInvocation EXCEPT
                 !.origin = origin,
                 !.event = e,
                 !.client = Client(v, i),
                 !.cluster = readTarget(environment, e).cluster,
                 !.service = readTarget(environment, e).service,
                 !.taskDefinition =
                     IF v = "v2" THEN environment.TASK_DEFINITION ELSE Undefined]
    IN  IF v = "v3"
        THEN IF CanStringify(e)
             THEN sendCommand(v, [r0 EXCEPT !.trace = <<"log:event", "log:updating">>],
                              i, reqs)
             ELSE \* JSON.stringify(event) throws, outside the try block
                  [inv |-> [r0 EXCEPT !.pc = "done",
                                      !.outcome = "raised",
                                      !.thrown = StringifyError,
                                      !.trace = <<"throw">>],
                   requests |-> reqs]
        ELSE sendCommand(v, [r0 EXCEPT !.trace = <<"log:target">>], i, reqs)

\* catch (error) { console.error(...); throw new Error(...) }
catchBlock(r, error) ==
    [r EXCEPT !.pc = "done",
              !.outcome = "raised",
              !.thrown = Err("Error", ErrorTemplate(error.message)),
              !.trace = r.trace \o <<"log:error", "throw">>]

\* The awaited call resolved with r.response.
\* (a response kept in one variable that every invocation writes and reads)
fulfilledShared(v, r, i, reqs) ==
    [inv |-> [r EXCEPT !.pc = "done",
                       !.outcome = "returned",
                       !.result = IF inv[1].ok THEN inv[1].response ELSE r.response,
                       !.trace = r.trace \o <<"log:response", "return">>],
     requests |-> reqs]

\* (the handler logs the response and ends without returning it)
fulfilledNoReturn(v, r, i, reqs) ==
    [inv |-> [r EXCEPT !.pc = "done",
                       !.outcome = "none",
                       !.trace = r.trace \o <<"log:response">>],
     requests |-> reqs]

fulfilled(v, r, i, reqs) ==
    IF v = "v3" /\ ~CanStringify(r.response)
    THEN \* JSON.stringify(response) throws, inside the try block
         [inv |-> catchBlock(r, StringifyError), requests |-> reqs]
    ELSE [inv |-> [r EXCEPT !.pc = "done",
                            !.outcome = "returned",
                            !.result = ReturnValue(r.response),
                            !.trace = r.trace \o <<"log:response", "return">>],
          requests |-> reqs]

\* The awaited call rejected with r.error.
rejectedRetry(v, r, i, reqs) ==
    IF r.calls < 2
    THEN sendCommand(v, r, i, reqs)
    ELSE [inv |-> catchBlock(r, r.error), requests |-> reqs]

rejected(v, r, i, reqs) ==
    IF v = "v3"
    THEN [inv |-> catchBlock(r, r.error), requests |-> reqs]
    ELSE \* no try block: the rejection is the handler's rejection
         [inv |-> [r EXCEPT !.pc = "done",
                            !.outcome = "raised",
                            !.thrown = r.error,
                            !.trace = r.trace \o <<"throw">>],
          requests |-> reqs]

\* The part of the handler that runs once the awaited call has settled.
handlerResume(v, r, i, reqs) ==
    IF r.ok THEN fulfilled(v, r, i, reqs) ELSE rejected(v, r, i, reqs)

\* Occurrences are taken in index order.
NextFree(i) ==
    /\ inv[i].pc = "idle"
    /\ \A j \in Invocations : j < i => inv[j].pc # "idle"

Init ==
    /\ variant \in Variants
    /\ env \in Environments(variant)
    /\ inv = [i \in Invocations |-> IdleInvocation]
    /\ requests = << >>
    /\ deployment = [i \in Invocations |-> "none"]
    /\ fargateService = [primary |-> 0, image |-> 0, running |-> 0]

\* targets: [new aws_events_targets.LambdaFunction(lambdaFunction)]
RuleTargetsTwice == <<"LambdaFunction", "LambdaFunction">>

RuleTargets == <<"LambdaFunction">>

\* The rule invokes each of its targets with e, the event of occurrence p;
\* the invocations take the slots from i on.  st is [inv, requests].
RECURSIVE invokeTargets(_, _, _, _, _)
invokeTargets(targets, e, i, p, st) ==
    IF targets = << >>
    THEN st
    ELSE LET h == handlerStart(variant, env, e, "rule", i, st.requests)
         IN  invokeTargets(Tail(targets), e, i + 1, p,
                 [inv |-> [st.inv EXCEPT ![i] = [h.inv EXCEPT !.push = p]],
                  requests |-> h.requests])

\* The registry emits e; the rule invokes the function if its pattern matches.
EventBridgeRule(i, e) ==
    /\ NextFree(i)
    /\ IF RuleMatches(e)
       THEN /\ i + Len(RuleTargets) - 1 <= MaxInv
            /\ LET h == invokeTargets(RuleTargets, e, i, i,
                                      [inv |-> inv, requests |-> requests])
               IN  /\ inv' = h.inv
                   /\ requests' = h.requests
       ELSE /\ inv' = [inv EXCEPT ![i] = [IdleInvocation EXCEPT
                                             !.pc = "discarded",
                                             !.push = i,
                                             !.event = e]]
            /\ requests' = requests
    /\ UNCHANGED <<variant, env, deployment, fargateService>>

\* The handler is called with e by something other than the rule.
DirectInvoke(i, e) ==
    /\ NextFree(i)
    /\ LET h == handlerStart(variant, env, e, "direct", i, requests)
       IN  /\ inv' = [inv EXCEPT ![i] = h.inv]
           /\ requests' = h.requests
    /\ UNCHANGED <<variant, env, deployment, fargateService>>

\* The target the stack created: the only one the Service Runtime knows.
KnownTarget(input) ==
    /\ input.cluster = ClusterName(variant)
    /\ input.service = ServiceName(variant)

\* The task definition a deployment runs: the one the request names, and
\* without one the task definition the service has.
DeploymentTaskDefinition(input) ==
    IF "taskDefinition" \in DOMAIN input
    THEN input.taskDefinition
    ELSE TaskDefinitionArn

\* Occurrence i is a push of the tag the task definition names to the
\* stack's repository.  An image is named by the occurrence that pushed it;
\* 0 is the image the tag named when the stack was deployed.
IsLatestPush(i) ==
    /\ inv[i].push = i
    /\ inv[i].event.source = "aws.ecr"
    /\ inv[i].event.detailType = "ECR Image Action"
    /\ inv[i].event.actionType = "PUSH"
    /\ inv[i].event.repositoryName = RepositoryName
    /\ inv[i].event.imageTag = EcrTag

\* The image the tag names now: the one pushed last.
LatestImage ==
    LET pushes == { i \in Invocations : IsLatestPush(i) }
    IN  IF pushes = {} THEN 0
        ELSE CHOOSE i \in pushes : \A j \in pushes : j <= i

\* image: ContainerImage.fromEcrRepository(repository, ecrTag)
\* The tasks of the deployment started for invocation i pull the image the
\* tag names when the deployment starts.
\* (a deployment that launches the image whose push caused it)
ResolveImageOfEvent(i) ==
    IF IsLatestPush(i) THEN i ELSE LatestImage

ResolveImage(i) == LatestImage

\* The Service Runtime accepts the request of invocation i: a forced
\* deployment starts and becomes the service's primary deployment.
ServiceRuntimeAccepts(i, ack) ==
    /\ inv[i].pc = "awaiting"
    /\ \E k \in 1..Len(requests) :
          requests[k].inv = i /\ KnownTarget(requests[k].input)
    /\ inv' = [inv EXCEPT ![i].pc = "settled", ![i].ok = TRUE, ![i].response = ack]
    /\ deployment' = [deployment EXCEPT ![i] = "inProgress"]
    /\ fargateService' = [fargateService EXCEPT !.primary = i, !.image = ResolveImage(i)]
    /\ UNCHANGED <<variant, env, requests>>

\* The call of invocation i fails.
ServiceRuntimeFails(i, error) ==
    /\ inv[i].pc = "awaiting"
    /\ inv' = [inv EXCEPT ![i].pc = "settled", ![i].ok = FALSE, ![i].error = error]
    /\ UNCHANGED <<variant, env, requests, deployment, fargateService>>

\* The handler of invocation i continues after the await.
\* (a handler that polls the service until its deployment is over)
ResumeWhenStable(i) ==
    /\ inv[i].pc = "settled"
    /\ deployment[i] # "inProgress"
    /\ LET h == handlerResume(variant, inv[i], i, requests)
       IN  /\ inv' = [inv EXCEPT ![i] = h.inv]
           /\ requests' = h.requests
    /\ UNCHANGED <<variant, env, deployment, fargateService>>

Resume(i) ==
    /\ inv[i].pc = "settled"
    /\ LET h == handlerResume(variant, inv[i], i, requests)
       IN  /\ inv' = [inv EXCEPT ![i] = h.inv]
           /\ requests' = h.requests
    /\ UNCHANGED <<variant, env, deployment, fargateService>>

\* The rolling deployment started for invocation i comes to its end: the
\* primary deployment has replaced the running tasks, a deployment that a
\* later one has superseded is drained.
DeploymentCompletes(i) ==
    /\ deployment[i] = "inProgress"
    /\ deployment' = [deployment EXCEPT ![i] = "completed"]
    /\ fargateService' = IF fargateService.primary = i
                  THEN [fargateService EXCEPT !.running = fargateService.image]
                  ELSE fargateService
    /\ UNCHANGED <<variant, env, inv, requests>>

Next ==
    \/ \E i \in Invocations, e \in BusEvents : EventBridgeRule(i, e)
    \/ \E i \in Invocations, e \in DirectEvents : DirectInvoke(i, e)
    \/ \E i \in Invocations, ack \in Acks : ServiceRuntimeAccepts(i, ack)
    \/ \E i \in Invocations, error \in Errors : ServiceRuntimeFails(i, error)
    \/ \E i \in Invocations : Resume(i)
    \/ \E i \in Invocations : DeploymentCompletes(i)

Spec == Init /\ [][Next]_vars

\* The Service Runtime answers every call, the event loop runs the
\* continuation of every settled await, and every deployment comes to an end.
FairSpec ==
    /\ Spec
    /\ \A i \in Invocations :
          /\ WF_vars((\E ack \in Acks : ServiceRuntimeAccepts(i, ack))
                       \/ (\E error \in Errors : ServiceRuntimeFails(i, error)))
          /\ WF_vars(Resume(i))
          /\ WF_vars(DeploymentCompletes(i))

(***************************************************************************)
(* The older MainStack (src/lambda/index.js, from line 23): no function;   *)
(* the rule's target is an ECS task of the service's task definition.      *)
(***************************************************************************)
\* new aws_events_targets.EcsTask({ cluster, taskDefinition, role,
\*                                  containerOverrides: [...] })
\* The parameters of the RunTask call the rule makes for a matched event.
EcsTask ==
    [cluster        |-> "main",
     taskDefinition |-> TaskDefinitionArn,
     image          |-> [repository |-> RepositoryName, tag |-> EcrTag],
     taskCount      |-> 1,
     containerOverrides |->
         [containerName |-> "app",
          environment   |-> [IMAGE_URI |-> <<RepositoryName, ":", "latest">>]]]

EcsTaskInit ==
    /\ variant = "ecsTask"
    /\ env = [CLUSTER_NAME |-> Undefined, SERVICE_NAME |-> Undefined,
              TASK_DEFINITION |-> Undefined]
    /\ inv = [i \in Invocations |-> IdleInvocation]
    /\ requests = << >>
    /\ deployment = [i \in Invocations |-> "none"]
    /\ fargateService = [primary |-> 0, image |-> 0, running |-> 0]

\* The registry emits e; for a match the rule runs its target: one task is
\* started in the cluster, outside the service.
evenbridge(i, e) ==
    /\ NextFree(i)
    /\ IF RuleMatches(e)
       THEN /\ inv' = [inv EXCEPT ![i] = [IdleInvocation EXCEPT
                                             !.pc = "pending",
                                             !.origin = "rule",
                                             !.push = i,
                                             !.event = e]]
            /\ requests' = Append(requests, [inv |-> i, input |-> EcsTask])
       ELSE /\ inv' = [inv EXCEPT ![i] = [IdleInvocation EXCEPT
                                             !.pc = "discarded",
                                             !.push = i,
                                             !.event = e]]
            /\ requests' = requests
    /\ UNCHANGED <<variant, env, deployment, fargateService>>

\* The task started for occurrence i pulls its image and runs.
TaskRuns(i) ==
    /\ inv[i].pc = "pending"
    /\ inv' = [inv EXCEPT ![i].pc = "running"]
    /\ UNCHANGED <<variant, env, requests, deployment, fargateService>>

\* The task started for occurrence i stops.
TaskStops(i) ==
    /\ inv[i].pc = "running"
    /\ inv' = [inv EXCEPT ![i].pc = "stopped"]
    /\ UNCHANGED <<variant, env, requests, deployment, fargateService>>

\* desiredCount: 1.  A task of the service stops for a reason of its own and
\* the service scheduler starts another, which pulls what the tag names.
ServiceSchedulerReplacesTask ==
    /\ fargateService.running # LatestImage
    /\ fargateService' = [fargateService EXCEPT !.running = LatestImage]
    /\ UNCHANGED <<variant, env, inv, requests, deployment>>

EcsTaskNext ==
    \/ \E i \in Invocations, e \in BusEvents : evenbridge(i, e)
    \/ \E i \in Invocations : TaskRuns(i)
    \/ \E i \in Invocations : TaskStops(i)
    \/ ServiceSchedulerReplacesTask

EcsTaskSpec == EcsTaskInit /\ [][EcsTaskNext]_vars

\* Every task the rule starts runs and comes to its end; nothing makes a
\* task of the service stop.
EcsTaskFairSpec ==
    /\ EcsTaskSpec
    /\ \A i \in Invocations : WF_vars(TaskRuns(i)) /\ WF_vars(TaskStops(i))

(***************************************************************************)
(* Properties.                                                             *)
(***************************************************************************)
Started(i) == inv[i].pc \in {"awaiting", "settled", "done"}

Done(i) == inv[i].pc = "done"

\* the call of invocation i was answered with an acknowledgment / a failure
CallSucceeded(i) == inv[i].pc \in {"settled", "done"} /\ inv[i].ok

CallFailed(i) == inv[i].pc \in {"settled", "done"} /\ inv[i].error # NoError

RequestsOf(i) == { k \in 1..Len(requests) : requests[k].inv = i }

Count(trace, x) == Cardinality({ k \in 1..Len(trace) : trace[k] = x })

\* x occurs in trace before the first y
Before(trace, x, y) ==
    \E k \in 1..Len(trace) :
        /\ trace[k] = x
        /\ \A m \in 1..k : trace[m] # y

\* a valid Trigger Event: a JSON envelope the rule's pattern matches
ValidTriggerEvent(e) == e.json /\ RuleMatches(e)

\* C1: for a valid trigger event matching the PUSH filter and a Service
\* Runtime that answers the call, the invocation has issued exactly one
\* request, carrying cluster = CLUSTER_NAME, service = SERVICE_NAME and
\* forceNewDeployment = true, in both handler variants.
C1_ExactlyOneForcedRequest ==
    \A i \in Invocations :
        (ValidTriggerEvent(inv[i].event) /\ CallSucceeded(i)) =>
            /\ Cardinality(RequestsOf(i)) = 1
            /\ inv[i].calls = 1
            /\ \A k \in RequestsOf(i) :
                  requests[k].input =
                      [cluster |-> env.CLUSTER_NAME,
                       service |-> env.SERVICE_NAME,
                       forceNewDeployment |-> TRUE]

C1_Witness ==
    /\ \A i \in {1, 2} :
          /\ Done(i) /\ inv[i].ok /\ inv[i].origin = "rule"
          /\ inv[i].outcome = "returned"
    /\ Len(requests) >= 2

\* C2: when the Service Runtime call succeeds, a finished invocation has
\* returned exactly the acknowledgment the Service Runtime gave, field by
\* field, whatever the acknowledgment is.
C2_ReturnsAckUnchanged ==
    \A i \in Invocations :
        (Done(i) /\ inv[i].ok) =>
            /\ inv[i].outcome = "returned"
            /\ inv[i].result = inv[i].response
            /\ inv[i].thrown = NoError

C2_Witness ==
    \E i, j \in Invocations :
        /\ Done(i) /\ inv[i].result = Ack("d-1", "PRIMARY")
        /\ Done(j) /\ inv[j].result = Ack("d-2", "ACTIVE")

\* C3: when the Service Runtime call fails, a finished invocation has raised
\* a failure whose message contains the message of the original failure, and
\* has returned nothing.
C3_FailureCarriesOriginalMessage ==
    \A i \in Invocations :
        (Done(i) /\ CallFailed(i)) =>
            /\ inv[i].outcome = "raised"
            /\ inv[i].result = NoAck
            /\ Contains(inv[i].thrown.message, inv[i].error.message)

C3_Witness ==
    \E i \in Invocations :
        /\ variant = "v3"
        /\ Done(i)
        /\ inv[i].error.name = "AccessDeniedException"
        /\ inv[i].outcome = "raised"

\* C4: no retry: an invocation whose Service Runtime call failed has made
\* exactly one call, the Service Runtime holds exactly one request of it,
\* and it ends by raising the failure.
C4_NoRetry ==
    \A i \in Invocations :
        CallFailed(i) =>
            /\ inv[i].calls = 1
            /\ Cardinality(RequestsOf(i)) = 1
            /\ Count(inv[i].trace, "send") = 1
            /\ Done(i) => inv[i].outcome = "raised"

C4_Witness ==
    \E i \in Invocations :
        /\ Done(i)
        /\ inv[i].error.name = "ThrottlingException"
        /\ inv[i].calls = 1

\* m is "<operation> failed: <underlying>" for some operation name
HasFailedForm(m, underlying) ==
    /\ Len(m) = Len(underlying) + 2
    /\ m[2] = " failed: "
    /\ SubSeq(m, 3, Len(m)) = underlying

\* C5: on failure of the Service Runtime call the error the handler raises
\* has a message of the form "<operation> failed: <underlying message>", in
\* both handler variants.
C5_FailedFormInBothVariants ==
    \A i \in Invocations :
        (Done(i) /\ CallFailed(i)) =>
            /\ inv[i].outcome = "raised"
            /\ HasFailedForm(inv[i].thrown.message, inv[i].error.message)

\* C6: with CLUSTER_NAME or SERVICE_NAME unset, an invocation fails with a
\* configuration error before any call: no call is made and the Service
\* Runtime receives no request of it.
C6_NoCallWhenTargetUnset ==
    \A i \in Invocations :
        ((env.CLUSTER_NAME = Undefined \/ env.SERVICE_NAME = Undefined)
            /\ inv[i].origin # "none") =>
            /\ inv[i].calls = 0
            /\ RequestsOf(i) = {}

\* C7: no deduplication or suppression: every invocation with a trigger
\* event (a JSON envelope) puts exactly one request of its own before the
\* Service Runtime, whatever requests and deployments in progress are there
\* already, so N such invocations make N requests.
C7_NoDeduplication ==
    /\ \A i \in Invocations :
          (inv[i].origin # "none" /\ inv[i].event.json) =>
              /\ Cardinality(RequestsOf(i)) = 1
              /\ inv[i].calls = 1
    /\ Len(requests) = Cardinality({ i \in Invocations : inv[i].calls > 0 })

C7_Witness ==
    /\ Done(1) /\ Done(2)
    /\ inv[1].event = inv[2].event
    /\ inv[1].outcome = "returned" /\ inv[2].outcome = "returned"
    /\ deployment[1] = "inProgress" /\ deployment[2] = "inProgress"
    /\ Len(requests) = 2
    /\ requests[1].input = requests[2].input

\* C8: every invocation that ends in failure has emitted a log line that
\* records the failure before it propagates the failure, in both handler
\* variants.  Stated here for the failures the claim's code is about, those
\* of the Service Runtime call.
C8_FailureLoggedBeforePropagation ==
    \A i \in Invocations :
        (Done(i) /\ CallFailed(i) /\ inv[i].outcome = "raised") =>
            Before(inv[i].trace, "log:error", "throw")

\* C9: logging never decides the outcome: a finished invocation has made its
\* call to the Service Runtime, and it has raised a failure exactly when
\* that call failed.
C9_LoggingNeverFailsOperation ==
    \A i \in Invocations :
        Done(i) =>
            /\ inv[i].calls = 1
            /\ (inv[i].outcome = "raised") <=> CallFailed(i)

\* C10 as stated: an invocation with an event whose action-type is not PUSH
\* (or is absent) issues no redeploy request.
C10_NonPushInvocationIssuesNothing ==
    \A i \in Invocations :
        (inv[i].origin # "none" /\ inv[i].event.actionType # "PUSH") =>
            RequestsOf(i) = {}

\* C10 (amended): the event rule invokes the handler only for events whose
\* action-type is PUSH: an event of the registry with another action type
\* starts no invocation and causes no request, and every invocation the
\* rule started carries a PUSH event.
C10_RuleInvokesOnlyForPush ==
    \A i \in Invocations :
        /\ inv[i].origin = "rule" => inv[i].event.actionType = "PUSH"
        /\ (inv[i].origin # "direct" /\ inv[i].event.actionType # "PUSH") =>
              /\ RequestsOf(i) = {}
              /\ inv[i].calls = 0
              /\ inv[i].pc \in {"idle", "discarded"}

C10_Witness ==
    \E i, j \in Invocations :
        /\ inv[i].pc = "discarded" /\ inv[i].event.actionType = "DELETE"
        /\ Done(j) /\ inv[j].origin = "rule" /\ inv[j].calls = 1


\* C11: the request does not depend on the event: every request the Service
\* Runtime has received is {cluster: CLUSTER_NAME, service: SERVICE_NAME,
\* forceNewDeployment: true}, whatever the event of its invocation, so two
\* invocations with different events have sent the same request.
C11_RequestIndependentOfEvent ==
    /\ \A k \in 1..Len(requests) :
          requests[k].input =
              [cluster |-> env.CLUSTER_NAME,
               service |-> env.SERVICE_NAME,
               forceNewDeployment |-> TRUE]
    /\ \A i, j \in Invocations :
          \A k \in RequestsOf(i), m \in RequestsOf(j) :
              requests[k].input = requests[m].input

C11_Witness ==
    /\ inv[1].event = EcrEvent("PUSH", RepositoryName, "v1")
    /\ inv[2].event = MalformedEvent
    /\ RequestsOf(1) # {} /\ RequestsOf(2) # {}
    /\ requests[1].input = requests[2].input

\* the invocations the rule started for the event of occurrence p
InvocationsOfPush(p) ==
    { i \in Invocations : inv[i].origin = "rule" /\ inv[i].push = p }

C13_InvocationsIndependent ==
    \A i \in Invocations :
        (Started(i) /\ inv[i].event.json) =>
            /\ Cardinality(RequestsOf(i)) = 1
            /\ \A k \in RequestsOf(i) :
                  /\ requests[k].input.cluster = env.CLUSTER_NAME
                  /\ requests[k].input.service = env.SERVICE_NAME
            /\ (Done(i) /\ inv[i].ok) =>
                  /\ inv[i].outcome = "returned"
                  /\ inv[i].result = inv[i].response
            /\ (Done(i) /\ ~inv[i].ok) =>
                  /\ inv[i].outcome = "raised"
                  /\ inv[i].result = NoAck
                  /\ Contains(inv[i].thrown.message, inv[i].error.message)

\* the second invocation started and finished while the first was suspended,
\* and the first then failed
C13_Witness ==
    /\ inv[1].pc = "settled" /\ ~inv[1].ok
    /\ inv[1].error.name = "ThrottlingException"
    /\ Done(2) /\ inv[2].outcome = "returned"
    /\ inv[2].result = Ack("d-2", "ACTIVE")

\* C14: an invocation has two outcomes and reaches one of them: a finished
\* invocation has returned or raised, one whose call resolved has returned
\* the acknowledgment, one whose call failed has raised; a finished
\* invocation takes no further step; and once the call has settled the
\* invocation finishes.
C14_TwoOutcomesReached ==
    /\ [](\A i \in Invocations :
            /\ Done(i) => inv[i].outcome \in {"returned", "raised"}
            /\ ~Done(i) => inv[i].outcome = "none"
            /\ (Done(i) /\ inv[i].ok) =>
                  inv[i].outcome = "returned" /\ inv[i].result = inv[i].response
            /\ (Done(i) /\ CallFailed(i)) => inv[i].outcome = "raised")
    /\ [][\A i \in Invocations : Done(i) => inv'[i] = inv[i]]_vars
    /\ \A i \in Invocations : (inv[i].pc = "settled") ~> Done(i)

C14_Witness ==
    /\ Done(1) /\ inv[1].outcome = "raised" /\ CallFailed(1)
    /\ Done(2) /\ inv[2].outcome = "returned"

C16_DeploysPassedTaskDefinition ==
    \A i \in Invocations :
        (variant = "v2" /\ env.TASK_DEFINITION # Undefined
            /\ inv[i].origin = "rule" /\ deployment[i] # "none") =>
            \A k \in RequestsOf(i) :
                /\ DeploymentTaskDefinition(requests[k].input) = env.TASK_DEFINITION
                /\ "taskDefinition" \in DOMAIN requests[k].input

\* C17: the operation is fire-and-forget: once the Service Runtime has
\* acknowledged the request the handler can return at once, whatever the state
\* of the deployment the request started, and a handler that has returned has
\* made that one call and no other.
C17_FireAndForget ==
    \A i \in Invocations :
        /\ (inv[i].pc = "settled" /\ inv[i].ok) =>
              /\ ENABLED Resume(i)
              /\ inv[i].calls = 1
        /\ (Done(i) /\ inv[i].ok) =>
              /\ inv[i].outcome = "returned"
              /\ inv[i].calls = 1
              /\ Cardinality(RequestsOf(i)) = 1
              /\ Count(inv[i].trace, "send") = 1
              /\ inv[i].trace[Len(inv[i].trace)] = "return"

C17_Witness ==
    \E i \in Invocations :
        /\ Done(i)
        /\ inv[i].outcome = "returned"
        /\ deployment[i] = "inProgress"

\* C18: in both handler variants, an invocation that calls the Service
\* Runtime has logged the received event before the call, and once the call
\* has resolved and the handler has ended it has logged the outcome (the
\* response or the failure) after the call.
C18_EventAndOutcomeLogged ==
    \A i \in Invocations :
        inv[i].calls > 0 =>
            /\ Before(inv[i].trace, "log:event", "send")
            /\ Done(i) =>
                  \E k \in 1..Len(inv[i].trace) :
                      /\ inv[i].trace[k] \in {"log:response", "log:error"}
                      /\ \E m \in 1..(k - 1) : inv[i].trace[m] = "send"

\* C19: with a Service Runtime that fails no call and fair processing, after
\* any finite sequence of pushes of the tag 'latest' to the stack's repository
\* the service ends up running the image pushed last, and keeps running it,
\* in whatever order and overlap the invocations for those pushes are
\* answered and their deployments end.
C19_LatestImageEventuallyRuns ==
    ([](\A i \in Invocations : ~CallFailed(i))) =>
        <>[](fargateService.running = LatestImage)

\* Two pushes of 'latest' whose requests were accepted in the opposite
\* order: the deployment of the first push is the primary one, and the
\* service runs the image of the second.
C19_Witness ==
    /\ IsLatestPush(1) /\ IsLatestPush(2)
    /\ Done(1) /\ Done(2)
    /\ inv[1].outcome = "returned" /\ inv[2].outcome = "returned"
    /\ fargateService.primary = 1
    /\ deployment[1] = "completed" /\ deployment[2] = "completed"
    /\ fargateService.running = 2
    /\ LatestImage = 2

\* C20: the rule delivers an event to the function only if its source is the
\* registry, its detail type is the image action, its action-type is PUSH and
\* its repository-name is the name of the stack's repository; an event that
\* differs in any of the four (another repository, another action, another
\* detail type, another source) is dropped: no invocation, no request.
C20_RuleDeliversOnlyWatchedPushes ==
    \A i \in Invocations :
        LET e == inv[i].event
            watched == /\ e.source = "aws.ecr"
                       /\ e.detailType = "ECR Image Action"
                       /\ e.actionType = "PUSH"
                       /\ e.repositoryName = RepositoryName
        IN  /\ inv[i].origin = "rule" => watched
            /\ (inv[i].push = i /\ ~watched) =>
                  /\ inv[i].pc = "discarded"
                  /\ inv[i].origin = "none"
                  /\ inv[i].trace = << >>
                  /\ RequestsOf(i) = {}
            /\ inv[i].pc = "discarded" => ~watched

C20_Witness ==
    \E i, j \in Invocations :
        /\ inv[i].pc = "discarded"
        /\ inv[i].event.repositoryName # RepositoryName
        /\ inv[i].event.actionType = "PUSH"
        /\ inv[j].origin = "rule"
        /\ inv[j].event.repositoryName = RepositoryName
        /\ Started(j)

\* C21: the target the function redeploys is the service that runs the
\* watched repository's image: the environment the stack sets names the
\* cluster and the Fargate service of the same stack, the task definition of
\* that service takes its image from the repository of the rule, every
\* request of a function running with the stack's names goes to that service,
\* and all requests of a function go to one target.
C21_TargetIsTheStacksService ==
    LET stack == MainStack(variant)
    IN  /\ stack.environment.CLUSTER_NAME = stack.fargateService.cluster
        /\ stack.environment.SERVICE_NAME = stack.fargateService.serviceName
        /\ stack.fargateService.taskDefinition.imageRepository = stack.ruleRepository
        /\ \A i \in Invocations :
              inv[i].origin = "rule" =>
                  inv[i].event.repositoryName =
                      stack.fargateService.taskDefinition.imageRepository
        /\ (env.CLUSTER_NAME = stack.environment.CLUSTER_NAME
               /\ env.SERVICE_NAME = stack.environment.SERVICE_NAME) =>
              \A k \in 1..Len(requests) :
                  /\ requests[k].input.cluster = stack.fargateService.cluster
                  /\ requests[k].input.service = stack.fargateService.serviceName
        /\ \A k, m \in 1..Len(requests) :
              /\ requests[k].input.cluster = requests[m].input.cluster
              /\ requests[k].input.service = requests[m].input.service

C21_Witness ==
    /\ env = MainStack(variant).environment
    /\ Len(requests) = 2
    /\ inv[1].origin = "rule" /\ inv[2].origin = "rule"
    /\ deployment[1] # "none" /\ deployment[2] # "none"
    /\ inv[1].event # inv[2].event

\* occurrence i is a push to the stack's repository of a tag other than the
\* one the task definition names
IsOtherTagPush(i) ==
    /\ inv[i].push = i
    /\ inv[i].event.source = "aws.ecr"
    /\ inv[i].event.detailType = "ECR Image Action"
    /\ inv[i].event.actionType = "PUSH"
    /\ inv[i].event.repositoryName = RepositoryName
    /\ inv[i].event.imageTag # EcrTag

\* the image the tag named when occurrence i happened
LatestBefore(i) ==
    LET pushes == { j \in 1..(i - 1) : IsLatestPush(j) }
    IN  IF pushes = {} THEN 0
        ELSE CHOOSE j \in pushes : \A m \in pushes : m <= j

\* C22: the rule does not filter on the image tag: a push to the stack's
\* repository of a tag other than 'latest' invokes the function, which sends
\* one forced redeployment request; the deployment that request starts
\* launches an image the tag 'latest' names (the one it named at the push or
\* one pushed to it since), never the image just pushed, and the service
\* never runs an image that was not pushed as 'latest'.
C22_OtherTagPushRedeploysLatest ==
    /\ \A i \in Invocations :
          IsOtherTagPush(i) =>
              /\ inv[i].origin = "rule"
              /\ inv[i].calls = 1
              /\ Cardinality(RequestsOf(i)) = 1
              /\ \A k \in RequestsOf(i) : requests[k].input.forceNewDeployment
              /\ (deployment[i] # "none" /\ fargateService.primary = i) =>
                    /\ fargateService.image # i
                    /\ fargateService.image >= LatestBefore(i)
                    /\ fargateService.image <= LatestImage
    /\ \A x \in {fargateService.image, fargateService.running} :
          x = 0 \/ IsLatestPush(x)

C22_Witness ==
    /\ IsLatestPush(1)
    /\ IsOtherTagPush(2)
    /\ fargateService.primary = 2
    /\ deployment[2] = "completed"
    /\ fargateService.running = 1

\* C23: in the stack whose rule targets an ECS task, a push of 'latest' to
\* the stack's repository leads to a deployment of the service: the tasks of
\* service 'app' come to run the pushed image (or one pushed after it).
C23_PushReplacesServiceTasks ==
    \A i \in Invocations :
        IsLatestPush(i) ~> (fargateService.running >= i)

\* C24: the client of the Service Runtime is one process-wide handle, made
\* once when the process starts: every invocation of the process uses that
\* client, and no invocation constructs one.
C24_SingleProcessWideClient ==
    \A i, j \in Invocations :
        (inv[i].origin # "none" /\ inv[j].origin # "none") =>
            /\ inv[i].client.constructedBy = 0
            /\ inv[i].client = inv[j].client

====
